---- MODULE Spec2Model ----
(***************************************************************************)
(* Model of examples/exabgp/monitor.py: the InstanceDir state machine      *)
(* (reload / withdraw / poll) and the dispatch loop of main() that feeds   *)
(* it with inotify events and quiescence ticks.                            *)
(*                                                                         *)
(* Lines are the strings the program reads and writes, newline included.   *)
(* Time is counted in half seconds, so that the +-0.5 s jitter of poll()   *)
(* is one unit.                                                            *)
(***************************************************************************)
EXTENDS Integers, Sequences, FiniteSets, TLC

VARIABLES
    pc,         \* "scan": before the listdir loop of main; "run": in the event loop;
                \* "exit": main returned False; "crash": an uncaught exception
    fs,         \* the monitored root: entry name -> what is on disk
    watches,    \* instance directories with an inotify watch
    queue,      \* inotify events not yet yielded by event_gen
    dirs,       \* main's dirs: path -> InstanceDir (or NoInstance)
    out,        \* sys.stdout: the lines written, each with the instance writing it
    now,        \* the clock, as last read
    timeout,    \* args.timeout, in half seconds
    calls,      \* the reload/withdraw/poll calls made by the last handler
    nextId,     \* number of InstanceDir objects constructed so far
    changes     \* number of filesystem changes so far

vars == <<pc, fs, watches, queue, dirs, out, now, timeout, calls, nextId, changes>>

----------------------------------------------------------------------------
(* Bounds of the model *)

\* filesystem changes in one behaviour
MaxChanges == 2
\* the clock is kept in 1..MaxTime by moving the origin of time
MaxTime == 2

\* entries of the monitored root
Names == {"d1", "d2"}
\* the entries that change while the program runs; the others stay as they
\* are at startup
Changing == {"d1"}
\* the path of an event of the top level directory
Root == "/"

A == "announce A\n"
B == "announce B\n"
WB == "withdraw B\n"
G == "garbage\n"
\* the keyword without the following space is no command
K == "announce\n"

\* contents an announce file is given
FileContents == { <<>>, <<A, G, B>>, <<K, A, WB, A>> }

\* args.timeout values tried, in half seconds (--timeout 1, --timeout 4)
Timeouts == {4}
\* random.random() * 5 in [0, 5): the extremes, in half seconds
Fuzz == {0}
\* random.random() * 5 - 2.5 in [-2.5, 2.5): the extremes
Spread == {-5, 4}
\* random.random() - 0.5 in [-0.5, 0.5)
Jitter == {-1, 0}
\* time between two readings of the clock at a tick (event_gen yields None
\* after a second without events, later when events keep coming)
TickSteps == {8}

----------------------------------------------------------------------------
(* Values *)

\* _contents = None, as opposed to a list
None == [is_none |-> TRUE, lines |-> <<>>]
List(l) == [is_none |-> FALSE, lines |-> l]

\* the announce file of a directory: absent, present but open() fails, or readable
NoFile == [kind |-> "absent", lines |-> <<>>]
Unreadable == [kind |-> "unreadable", lines |-> <<>>]
File(l) == [kind |-> "file", lines |-> l]

NoEntry == [kind |-> "none", announce |-> NoFile]
PlainFile == [kind |-> "file", announce |-> NoFile]
Dir(f) == [kind |-> "dir", announce |-> f]

NoInstance == [id |-> 0, _contents |-> None, _timeout_ts |-> 0, _timeout |-> 0]

\* str.startswith
startswith(s, p) == Len(s) >= Len(p) /\ SubSeq(s, 1, Len(p)) = p

\* s[9:]
slice9(s) == SubSeq(s, 10, Len(s))

\* os.path.isdir(os.path.join(monitor_dir, name))
isdir(name) == fs[name].kind = "dir"

\* Faulty variant of isfile, in place of which C17 fails: the directory is
\* tested instead of the file.
isfile_of_dir(name) == fs[name].kind = "dir"

\* os.path.isfile(dirs[path].announce_fn), line 267
isfile(name) == fs[name].kind = "dir" /\ fs[name].announce.kind # "absent"

\* what open(self.announce_fn) finds
announce_file(name) == IF fs[name].kind = "dir" THEN fs[name].announce ELSE NoFile

----------------------------------------------------------------------------
(* InstanceDir *)

\* Faulty variant of accepted, in place of which C8 fails: the keyword is tested
\* without the space that follows it.
accepted_keyword_only(this) == startswith(this, "announce") \/ startswith(this, "withdraw")

\* reload, line 149: the test that keeps a line
accepted(this) == startswith(this, "announce ") \/ startswith(this, "withdraw ")

RECURSIVE read_lines(_, _)
\* reload, lines 147-152: the loop over fd.readlines(), new being the list built so far
read_lines(lines, new) ==
    IF lines = <<>> THEN new
    ELSE LET this == Head(lines)
         IN  read_lines(Tail(lines), IF accepted(this) THEN new \o <<this>> ELSE new)

\* Faulty variant of reload_writes, in place of which C9 fails: only the lines
\* that were not accepted before are written.
reload_writes_added(self, new) ==
    SelectSeq(new, LAMBDA l : \A i \in DOMAIN self._contents.lines : self._contents.lines[i] # l)

\* reload, lines 158-170: what is written to sys.stdout when new differs from _contents
reload_writes(self, new) == new

\* Faulty variant of reload_error, in place of which C10 fails: the accepted
\* lines are emptied when the file cannot be read.
reload_error_clears(self) ==
    [self |-> [self EXCEPT !._contents = List(<<>>)], wrote |-> <<>>, ret |-> "None"]

\* reload, lines 153-155: the except branch
reload_error(self) == [self |-> self, wrote |-> <<>>, ret |-> "None"]

\* Faulty variant of reload_differs, in place of which C7 fails: every read
\* counts as a change.
reload_always_differs(self, new) == TRUE

\* reload, line 157: new != self._contents
reload_differs(self, new) == List(new) # self._contents

\* Faulty variant of reload, in place of which C13 fails: a file without any
\* accepted line counts as unchanged.
reload_skips_empty(self, f) ==
    IF f.kind # "file" THEN reload_error(self)
    ELSE LET new == read_lines(f.lines, <<>>)
         IN  IF new # <<>> /\ reload_differs(self, new)
             THEN [self  |-> [self EXCEPT !._contents = List(new)],
                   wrote |-> reload_writes(self, new),
                   ret   |-> "True"]
             ELSE [self |-> self, wrote |-> <<>>, ret |-> "False"]

\* InstanceDir.reload, f being what open(self.announce_fn) finds.
\* ret is the value returned: "True", "False" or "None".
reload(self, f) ==
    IF f.kind # "file" THEN reload_error(self)
    ELSE LET new == read_lines(f.lines, <<>>)
         IN  IF reload_differs(self, new)
             THEN [self  |-> [self EXCEPT !._contents = List(new)],
                   wrote |-> reload_writes(self, new),
                   ret   |-> "True"]
             ELSE [self |-> self, wrote |-> <<>>, ret |-> "False"]

\* Faulty variant of withdrawal, in place of which C5 fails: the slice starts
\* one character early.
withdrawal_from_space(line) == "withdraw " \o SubSeq(line, 9, Len(line))

\* withdraw, line 188: the withdrawal of an announce line
withdrawal(line) == "withdraw " \o slice9(line)

RECURSIVE withdraw_lines(_, _)
\* withdraw, lines 185-191: the loop over self._contents
withdraw_lines(lines, new) ==
    IF lines = <<>> THEN new
    ELSE LET line == Head(lines)
         IN  withdraw_lines(Tail(lines),
                            IF startswith(line, "announce ")
                            THEN new \o <<withdrawal(line)>> ELSE new)

\* Faulty variant of withdraw, in place of which C6 fails: the lines written
\* are not recorded in _contents.
withdraw_forgets(self) ==
    IF self._contents.is_none
    THEN [self |-> self, wrote |-> <<>>, ret |-> "raised"]
    ELSE [self |-> self, wrote |-> withdraw_lines(self._contents.lines, <<>>), ret |-> "ok"]

\* InstanceDir.withdraw. Iterating over _contents = None raises TypeError
\* (ret = "raised"), before anything is written or assigned.
withdraw(self) ==
    IF self._contents.is_none
    THEN [self |-> self, wrote |-> <<>>, ret |-> "raised"]
    ELSE LET new == withdraw_lines(self._contents.lines, <<>>)
         IN  [self  |-> [self EXCEPT !._contents = List(new)],
              wrote |-> new,
              ret   |-> "ok"]

\* Faulty variant of poll_due, in place of which C4 fails: the poll is already
\* due at the deadline.
poll_due_at_deadline(self, t) == t >= self._timeout_ts

\* poll, line 206
poll_due(self, t) == t > self._timeout_ts

\* poll, line 207, jit being random.random() - 0.5
poll_inc(self, jit) == self._timeout + jit

\* InstanceDir.poll(now), f being what open(self.announce_fn) finds
poll(self, t, jit, f) ==
    IF poll_due(self, t)
    THEN reload([self EXCEPT !._timeout_ts = t + poll_inc(self, jit)], f)
    ELSE [self |-> self, wrote |-> <<>>, ret |-> "skipped"]

\* InstanceDir.__init__ up to line 127, t being time.time() and fuzz random.random() * 5
new_instance(id, t, _timeout, fuzz) ==
    [id |-> id, _contents |-> None, _timeout_ts |-> t + _timeout + fuzz, _timeout |-> _timeout]

\* Faulty variant of init_load, in place of which C18 fails: the constructor
\* does not load the file.
init_load_never(self, f) == [self |-> self, wrote |-> <<>>, ret |-> "skipped"]

\* InstanceDir.__init__, lines 128-129: the initial load
init_load(self, f) ==
    IF f.kind # "absent" THEN reload(self, f)
    ELSE [self |-> self, wrote |-> <<>>, ret |-> "skipped"]

----------------------------------------------------------------------------
(* Bookkeeping of the model: the output stream and the record of calls *)

\* sys.stdout.write(line) for each line of a batch, by the instance self; last
\* marks the line that sys.stdout.flush() follows (lines 170 and 192)
emit(self, lines) ==
    [i \in 1..Len(lines) |-> [id |-> self.id, line |-> lines[i], last |-> i = Len(lines)]]

\* The record of one call op on the instance of directory d: pre is the instance
\* it is called on and r its result, f the announce file found, t the time passed
\* (poll) or last read. Of the instance before and after, the record keeps
\* _contents, and how the deadline compares: late (t is past the deadline of
\* pre), kept (the deadline is the one of pre) and ahead (the deadline after the
\* call is later than t).
call(op, d, pre, f, t, r) ==
    [op |-> op, dir |-> d, id |-> pre.id, file |-> f,
     pre |-> pre._contents, post |-> r.self._contents,
     wrote |-> r.wrote, ret |-> r.ret,
     late  |-> t > pre._timeout_ts,
     kept  |-> r.self._timeout_ts = pre._timeout_ts,
     ahead |-> r.self._timeout_ts > t]

\* the enumerations of a finite set, as sequences without repetition
Orders(S) ==
    {o \in [1..Cardinality(S) -> S] : \A i, j \in 1..Cardinality(S) : o[i] = o[j] => i = j}

\* one enumeration of S: the calls of a tick are recorded in this order, whatever
\* the order of dirs.values()
by_name(S) == CHOOSE o \in Orders(S) : TRUE

RECURSIVE concat(_)
\* the concatenation of a sequence of sequences
concat(ss) == IF ss = <<>> THEN <<>> ELSE Head(ss) \o concat(Tail(ss))

Max0(x) == IF x < 0 THEN 0 ELSE x

\* Only differences of time stamps matter to the program (now > _timeout_ts,
\* now + inc). The origin of time is moved forward by s: a deadline that falls
\* before the origin has passed for every later reading of the clock (now >= 1).
rebase(instances, s) ==
    [d \in Names |-> [instances[d] EXCEPT !._timeout_ts = Max0(@ - s)]]

tracked(instances) == {d \in Names : instances[d].id # 0}

----------------------------------------------------------------------------
(* main *)

\* main, lines 228-229 and 254-255: the InstanceDir of directory d, id being the
\* number of the object, sp random.random() * 5 - 2.5 and fz the fuzz of __init__.
\* made is the object before its initial load, f the announce file found and r
\* the result of the load.
construct(id, d, sp, fz) ==
    LET self == new_instance(id, now, timeout + sp, fz)
        f    == announce_file(d)
    IN  [made |-> self, f |-> f, r |-> init_load(self, f)]

\* the calls of a construction
construct_calls(d, c) ==
    IF c.r.ret = "skipped" THEN <<>> ELSE <<call("reload", d, c.made, c.f, now, c.r)>>

\* main, lines 220-232: the startup scan. order is the order in which
\* os.listdir gives the directories; the other entries are skipped (line 226).
Scan ==
    /\ pc = "scan"
    /\ \E order \in Orders({d \in Names : isdir(d)}),
          sp \in [Names -> Spread], fz \in [Names -> Fuzz] :
         LET n    == Len(order)
             made == [i \in 1..n |-> construct(nextId + i, order[i], sp[order[i]], fz[order[i]])]
         IN  /\ dirs' = rebase([d \in Names |->
                                  IF \E i \in 1..n : order[i] = d
                                  THEN made[CHOOSE i \in 1..n : order[i] = d].r.self
                                  ELSE dirs[d]], 0)
             /\ out' = out \o concat([i \in 1..n |-> emit(made[i].made, made[i].r.wrote)])
             /\ calls' = concat([i \in 1..n |-> construct_calls(order[i], made[i])])
             /\ nextId' = nextId + n
    /\ watches' = watches \cup {d \in Names : isdir(d)}
    /\ pc' = "run"
    /\ UNCHANGED <<fs, queue, now, timeout, changes>>

\* poll draws random.random() only in an instance that is in dirs and due at t
draws(d, t) == d \in tracked(dirs) /\ poll_due(dirs[d], t)

\* the calls of the poll at t of the instance of directory d, r being its result
poll_calls(d, t, jit, r) ==
    LET self == dirs[d]
        f    == announce_file(d)
        due  == [self EXCEPT !._timeout_ts = t + poll_inc(self, jit)]
    IN  <<call("poll", d, self, f, t, r)>>
        \o (IF r.ret = "skipped" THEN <<>> ELSE <<call("reload", d, due, f, t, r)>>)

\* main, lines 235-241: event_gen yields None, no event being pending, and every
\* instance is polled, in the order of dirs.values(). The calls are recorded in
\* one order, whatever that order is.
Tick ==
    /\ pc = "run"
    /\ queue = <<>>
    /\ \E step \in TickSteps, order \in Orders(tracked(dirs)) :
       \E jit \in {j \in [Names -> Jitter] : \A d \in Names : j[d] # 0 => draws(d, now + step)} :
         LET t      == now + step
             polled == [d \in Names |-> poll(dirs[d], t, jit[d], announce_file(d))]
             s      == IF t > MaxTime THEN t - MaxTime ELSE 0
             rec    == by_name(tracked(dirs))
         IN  /\ dirs' = rebase([d \in Names |->
                                  IF d \in tracked(dirs) THEN polled[d].self ELSE dirs[d]], s)
             /\ out' = out \o concat([i \in 1..Len(order) |->
                                        emit(dirs[order[i]], polled[order[i]].wrote)])
             /\ calls' = concat([i \in 1..Len(rec) |->
                                   poll_calls(rec[i], t, jit[rec[i]], polled[rec[i]])])
             /\ now' = t - s
    /\ UNCHANGED <<pc, fs, watches, queue, timeout, nextId, changes>>

\* main, lines 248-255: an event of the top level directory for a name that is a directory
DirAdded ==
    /\ pc = "run"
    /\ queue # <<>>
    /\ Head(queue).path = Root
    /\ isdir(Head(queue).filename)
    /\ \E sp \in Spread, fz \in Fuzz :
         LET d == Head(queue).filename
             c == construct(nextId + 1, d, sp, fz)
         IN  /\ dirs' = rebase([dirs EXCEPT ![d] = c.r.self], 0)
             /\ out' = out \o emit(c.made, c.r.wrote)
             /\ calls' = construct_calls(d, c)
             /\ nextId' = nextId + 1
             /\ watches' = watches \cup {d}
    /\ queue' = Tail(queue)
    /\ UNCHANGED <<pc, fs, now, timeout, changes>>

\* main, lines 256-261: an event of the top level directory for a name that is
\* no directory and is in dirs. A TypeError raised by withdraw ends the process
\* after dirs.pop.
DirRemoved ==
    /\ pc = "run"
    /\ queue # <<>>
    /\ Head(queue).path = Root
    /\ ~isdir(Head(queue).filename)
    /\ Head(queue).filename \in tracked(dirs)
    /\ LET d    == Head(queue).filename
           this == dirs[d]
           r    == withdraw(this)
       IN  /\ dirs' = [dirs EXCEPT ![d] = NoInstance]
           /\ out' = out \o emit(this, r.wrote)
           /\ calls' = <<call("withdraw", d, this, announce_file(d), now, r)>>
           /\ IF r.ret = "raised"
              THEN pc' = "crash" /\ UNCHANGED watches
              ELSE pc' = pc /\ watches' = watches \ {d}
    /\ queue' = Tail(queue)
    /\ UNCHANGED <<fs, now, timeout, nextId, changes>>

\* main, lines 248-261: an event of the top level directory for a name that is
\* neither a directory nor in dirs
RootIgnored ==
    /\ pc = "run"
    /\ queue # <<>>
    /\ Head(queue).path = Root
    /\ ~isdir(Head(queue).filename)
    /\ Head(queue).filename \notin tracked(dirs)
    /\ queue' = Tail(queue)
    /\ calls' = <<>>
    /\ UNCHANGED <<pc, fs, watches, dirs, out, now, timeout, nextId, changes>>

\* main, lines 262-266: an event for a file named announce in a directory not in dirs
Unmonitored ==
    /\ pc = "run"
    /\ queue # <<>>
    /\ Head(queue).path # Root
    /\ Head(queue).filename = "announce"
    /\ Head(queue).path \notin tracked(dirs)
    /\ pc' = "exit"
    /\ queue' = Tail(queue)
    /\ calls' = <<>>
    /\ UNCHANGED <<fs, watches, dirs, out, now, timeout, nextId, changes>>

\* main, lines 267-268: an event for the announce file of a directory in dirs, the file existing
AnnounceReload ==
    /\ pc = "run"
    /\ queue # <<>>
    /\ Head(queue).path # Root
    /\ Head(queue).filename = "announce"
    /\ Head(queue).path \in tracked(dirs)
    /\ isfile(Head(queue).path)
    /\ LET d    == Head(queue).path
           self == dirs[d]
           f    == announce_file(d)
           r    == reload(self, f)
       IN  /\ dirs' = [dirs EXCEPT ![d] = r.self]
           /\ out' = out \o emit(self, r.wrote)
           /\ calls' = <<call("reload", d, self, f, now, r)>>
    /\ queue' = Tail(queue)
    /\ UNCHANGED <<pc, fs, watches, now, timeout, nextId, changes>>

\* main, lines 269-271: an event for the announce file of a directory in dirs, the file missing
AnnounceWithdraw ==
    /\ pc = "run"
    /\ queue # <<>>
    /\ Head(queue).path # Root
    /\ Head(queue).filename = "announce"
    /\ Head(queue).path \in tracked(dirs)
    /\ ~isfile(Head(queue).path)
    /\ LET d    == Head(queue).path
           self == dirs[d]
           r    == withdraw(self)
       IN  /\ dirs' = [dirs EXCEPT ![d] = r.self]
           /\ out' = out \o emit(self, r.wrote)
           /\ calls' = <<call("withdraw", d, self, announce_file(d), now, r)>>
           /\ pc' = IF r.ret = "raised" THEN "crash" ELSE pc
    /\ queue' = Tail(queue)
    /\ UNCHANGED <<fs, watches, now, timeout, nextId, changes>>

\* main, lines 248 and 262: an event inside an instance directory for another file name
OtherIgnored ==
    /\ pc = "run"
    /\ queue # <<>>
    /\ Head(queue).path # Root
    /\ Head(queue).filename # "announce"
    /\ queue' = Tail(queue)
    /\ calls' = <<>>
    /\ UNCHANGED <<pc, fs, watches, dirs, out, now, timeout, nextId, changes>>

----------------------------------------------------------------------------
(* The filesystem and inotify: what happens around the program *)

event(path, filename) == [path |-> path, filename |-> filename]

\* the process is alive, and the filesystem may still change
changing == changes < MaxChanges /\ pc \in {"scan", "run"}

\* mkdir root/d. The top level directory is watched from line 221 on; an event
\* is lost when the inotify queue overflows.
Mkdir ==
    /\ changing
    /\ \E d \in Changing, notify \in BOOLEAN :
         /\ fs[d].kind = "none"
         /\ fs' = [fs EXCEPT ![d] = Dir(NoFile)]
         /\ queue' = IF notify THEN Append(queue, event(Root, d)) ELSE queue
    /\ changes' = changes + 1
    /\ UNCHANGED <<pc, watches, dirs, out, now, timeout, calls, nextId>>

\* rm -r root/d: IN_DELETE for the announce file if d is watched, then IN_DELETE
\* for d in the top level directory; the kernel drops the watch of d.
\* delivered tells which of the two events reach the program.
RemoveDir ==
    /\ changing
    /\ \E d \in Changing, delivered \in {"all", "dir", "none"} :
         /\ fs[d].kind = "dir"
         /\ fs' = [fs EXCEPT ![d] = NoEntry]
         /\ queue' = queue
                \o (IF delivered = "all" /\ isfile(d) /\ d \in watches
                    THEN <<event(d, "announce")>> ELSE <<>>)
                \o (IF delivered # "none" THEN <<event(Root, d)>> ELSE <<>>)
         /\ watches' = watches \ {d}
    /\ changes' = changes + 1
    /\ UNCHANGED <<pc, dirs, out, now, timeout, calls, nextId>>

\* The announce file of d is created, or replaced by a rename, with the lines c
\* (IN_CREATE, IN_MOVED_TO), or rewritten in place (IN_MODIFY is not in the mask:
\* notify is FALSE). No event without a watch.
WriteFile ==
    /\ changing
    /\ \E d \in Changing, c \in FileContents, notify \in BOOLEAN :
         /\ fs[d].kind = "dir"
         /\ fs[d].announce # File(c)
         /\ fs' = [fs EXCEPT ![d] = Dir(File(c))]
         /\ queue' = IF notify /\ d \in watches
                     THEN Append(queue, event(d, "announce")) ELSE queue
    /\ changes' = changes + 1
    /\ UNCHANGED <<pc, watches, dirs, out, now, timeout, calls, nextId>>

\* rm root/d/announce
RemoveFile ==
    /\ changing
    /\ \E d \in Changing, notify \in BOOLEAN :
         /\ isfile(d)
         /\ fs' = [fs EXCEPT ![d] = Dir(NoFile)]
         /\ queue' = IF notify /\ d \in watches
                     THEN Append(queue, event(d, "announce")) ELSE queue
    /\ changes' = changes + 1
    /\ UNCHANGED <<pc, watches, dirs, out, now, timeout, calls, nextId>>

\* chmod a-r root/d/announce: open() fails from now on (IN_ATTRIB is not in the mask)
Chmod ==
    /\ changing
    /\ \E d \in Changing :
         /\ fs[d].kind = "dir"
         /\ fs[d].announce.kind = "file"
         /\ fs' = [fs EXCEPT ![d] = Dir(Unreadable)]
    /\ changes' = changes + 1
    /\ UNCHANGED <<pc, watches, queue, dirs, out, now, timeout, calls, nextId>>

\* another file is created in the watched directory d
TouchOther ==
    /\ changing
    /\ \E d \in Changing :
         /\ fs[d].kind = "dir"
         /\ d \in watches
         /\ queue' = Append(queue, event(d, "other"))
    /\ changes' = changes + 1
    /\ UNCHANGED <<pc, fs, watches, dirs, out, now, timeout, calls, nextId>>

----------------------------------------------------------------------------
(* Specification *)

\* What the monitored root holds when main has put its watch on it (line 221).
\* A directory made after that and before the scan has its IN_CREATE pending.
InitLayouts ==
    { l \in [Names -> {NoEntry, PlainFile, Dir(NoFile), Dir(File(<<A, G, B>>))}] :
        /\ l["d1"].kind # "file"
        /\ l["d2"] \in {PlainFile, Dir(File(<<A, G, B>>))} }

Init ==
    /\ pc = "scan"
    /\ fs \in InitLayouts
    /\ watches = {}
    /\ queue \in {<<>>} \cup {<<event(Root, d)>> : d \in {n \in Changing : fs[n].kind = "dir"}}
    /\ dirs = [d \in Names |-> NoInstance]
    /\ out = <<>>
    /\ now = 1
    /\ timeout \in Timeouts
    /\ calls = <<>>
    /\ nextId = 0
    /\ changes = 0

Next ==
    \/ Scan
    \/ Tick
    \/ DirAdded
    \/ DirRemoved
    \/ RootIgnored
    \/ Unmonitored
    \/ AnnounceReload
    \/ AnnounceWithdraw
    \/ OtherIgnored
    \/ Mkdir
    \/ RemoveDir
    \/ WriteFile
    \/ RemoveFile
    \/ Chmod
    \/ TouchOther

Spec == Init /\ [][Next]_vars

\* the steps of the program, as opposed to those of the filesystem
Program ==
    \/ Scan
    \/ Tick
    \/ DirAdded
    \/ DirRemoved
    \/ RootIgnored
    \/ Unmonitored
    \/ AnnounceReload
    \/ AnnounceWithdraw
    \/ OtherIgnored

\* The program keeps running: event_gen yields every pending event, and None
\* whenever there is none. Nothing obliges the filesystem to change.
FairSpec == Spec /\ WF_vars(Program)

----------------------------------------------------------------------------
(* Vocabulary of the properties *)

Range(q) == {q[i] : i \in DOMAIN q}

IsAnnounce(l) == startswith(l, "announce ")
IsWithdraw(l) == startswith(l, "withdraw ")
IsCommand(l) == IsAnnounce(l) \/ IsWithdraw(l)

\* the lines of a file that are commands, in file order
Filtered(lines) == SelectSeq(lines, IsCommand)

\* the lines of the stream o written by the instance id, in order
Lines(o, id) ==
    LET mine == SelectSeq(o, LAMBDA e : e.id = id)
    IN  [i \in 1..Len(mine) |-> mine[i].line]

\* in a step: what the step appends to the stream for the instance id
Wrote(id) ==
    LET a == Lines(out, id)
        b == Lines(out', id)
    IN  IF Len(b) >= Len(a) /\ SubSeq(b, 1, Len(a)) = a
        THEN SubSeq(b, Len(a) + 1, Len(b))
        ELSE <<"the stream was not appended to">>

\* a step of the program, whose calls are calls'
ProgramStep == changes' = changes

\* an instance holding the accepted lines c
Holding(c) == [NoInstance EXCEPT !._contents = c]

\* the routes of instance id live at the consumer: the announce lines written
\* for it that no later line written for it withdraws
Live(id) ==
    LET mine == Lines(out, id)
    IN  {mine[i] : i \in {k \in DOMAIN mine :
                            /\ IsAnnounce(mine[k])
                            /\ \A j \in DOMAIN mine :
                                 j > k => mine[j] # "withdraw " \o slice9(mine[k])}}

\* the instance of directory d reflects the announce file of d
InSync(d) ==
    LET f == announce_file(d)
        c == dirs[d]._contents
    IN  CASE f.kind = "file"   -> c = List(Filtered(f.lines))
          [] f.kind = "absent" -> \A l \in Range(c.lines) : ~IsAnnounce(l)
          [] OTHER             -> TRUE

----------------------------------------------------------------------------
(* Properties *)

\* C1: between two events, for every instance in dirs whose last call was a
\* reload that read the file, the routes live at the consumer are the announce
\* lines of its accepted lines.
C1_ConsumerInSync ==
    \A c \in Range(calls) :
        (/\ c.op = "reload"
         /\ c.ret \in {"True", "False"}
         /\ dirs[c.dir].id = c.id)
        => Live(c.id) = {l \in Range(dirs[c.dir]._contents.lines) : IsAnnounce(l)}

\* C2: every announce line written by an instance that is no longer in dirs is
\* followed in the stream by the matching withdraw line.
C2_NoAnnouncementOutlives ==
    \A i \in DOMAIN out :
        (/\ IsAnnounce(out[i].line)
         /\ out[i].id \notin {dirs[d].id : d \in Names})
        => \E j \in DOMAIN out : j > i /\ out[j].line = "withdraw " \o slice9(out[i].line)

\* C3: with the program running and the filesystem changing finitely often,
\* eventually every instance in dirs reflects its announce file for good: the
\* lines of a changed or created file are accepted, the announce lines of a
\* removed file are withdrawn.
C3_Convergence ==
    <>[](pc = "run" => \A d \in tracked(dirs) : InSync(d))

\* C4: a poll that is not past the deadline changes neither the accepted lines
\* nor the deadline and writes nothing; a poll past the deadline leaves the
\* accepted lines and writes the lines that reload does on the same file.
C4_PollIsGuardedReload ==
    [][\A c \in Range(calls') :
         (ProgramStep /\ c.op = "poll")
         => IF ~c.late
            THEN c.post = c.pre /\ c.kept /\ Wrote(c.id) = <<>>
            ELSE LET r == reload(Holding(c.pre), c.file)
                 IN  /\ c.post = r.self._contents
                     /\ Wrote(c.id) = r.wrote
                     /\ dirs'[c.dir]._contents = r.self._contents]_vars

C4_Witness ==
    /\ \E c \in Range(calls) : c.op = "poll" /\ c.late /\ c.ret = "True" /\ ~c.pre.is_none
    /\ \E c \in Range(calls) : c.op = "poll" /\ ~c.late

\* C5: withdraw writes one line per accepted announce line, in order, each the
\* announce line with its first 9 characters replaced by "withdraw ", and
\* nothing for the other lines; the accepted lines are then the lines written.
C5_WithdrawalCompleteness ==
    [][\A c \in Range(calls') :
         (ProgramStep /\ c.op = "withdraw" /\ ~c.pre.is_none)
         => LET ann == SelectSeq(c.pre.lines, IsAnnounce)
            IN  /\ Wrote(c.id) = [i \in 1..Len(ann) |-> "withdraw " \o slice9(ann[i])]
                /\ c.post = List(Wrote(c.id))]_vars

C5_Witness ==
    \E c \in Range(calls) :
        c.op = "withdraw" /\ c.pre = List(<<A, WB, A>>) /\ Len(c.wrote) = 2

\* C6: a withdraw that follows a withdraw of the same instance, no other call
\* being made in between, writes nothing.
C6_WithdrawIdempotent ==
    [][\A c1 \in Range(calls), c2 \in Range(calls') :
         (/\ ProgramStep
          /\ c1.op = "withdraw"
          /\ c2.op = "withdraw" /\ c2.id = c1.id)
         => Wrote(c2.id) = <<>>]_vars

C6_Witness ==
    \E c \in Range(calls) :
        /\ c.op = "withdraw"
        /\ c.pre = List(<<"withdraw A\n", "withdraw B\n">>)
        /\ c.wrote = <<>>

\* C7: a reload that follows a reload of the same instance that read the file,
\* the file being the same and no other call being made in between, returns
\* False, writes nothing and keeps the accepted lines.
C7_ReloadIdempotent ==
    [][\A c1 \in Range(calls), c2 \in Range(calls') :
         (/\ ProgramStep
          /\ c1.op = "reload" /\ c1.file.kind = "file"
          /\ c2.op = "reload" /\ c2.id = c1.id /\ c2.file = c1.file)
         => /\ c2.ret = "False"
            /\ Wrote(c2.id) = <<>>
            /\ c2.post = c1.post
            /\ dirs'[c2.dir]._contents = c1.post]_vars

C7_Witness ==
    \E c \in Range(calls) :
        c.op = "reload" /\ c.ret = "False" /\ c.pre = List(<<A, WB, A>>)

\* C8: after a reload that read the file, the accepted lines are the lines of
\* the file that begin with "announce " or "withdraw ", in file order, repeated
\* lines included.
C8_Filtering ==
    \A c \in Range(calls) :
        (c.op = "reload" /\ c.file.kind = "file")
        => /\ c.post = List(Filtered(c.file.lines))
           /\ dirs[c.dir].id = c.id => dirs[c.dir]._contents = List(Filtered(c.file.lines))

C8_Witness ==
    \E c \in Range(calls) :
        /\ c.op = "reload"
        /\ c.file = File(<<K, A, WB, A>>)
        /\ c.post = List(<<A, WB, A>>)

\* C9: a reload that finds the filtered lines different from the accepted
\* lines appends exactly the filtered lines to the stream, returns True and
\* leaves them as the accepted lines.
C9_ReloadWritesNewSequence ==
    [][\A c \in Range(calls') :
         (/\ ProgramStep
          /\ c.op = "reload" /\ c.file.kind = "file"
          /\ List(Filtered(c.file.lines)) # c.pre)
         => /\ Wrote(c.id) = Filtered(c.file.lines)
            /\ c.ret = "True"
            /\ c.post = List(Filtered(c.file.lines))
            /\ dirs'[c.dir]._contents = List(Filtered(c.file.lines))]_vars

C9_Witness ==
    \E c \in Range(calls) :
        /\ c.op = "reload" /\ c.ret = "True"
        /\ c.pre = List(<<A, B>>)
        /\ c.wrote = <<A, WB, A>>

\* C10: a reload that cannot read the file returns None, keeps the accepted
\* lines, unset included, and writes nothing.
C10_ReadFailure ==
    [][\A c \in Range(calls') :
         (ProgramStep /\ c.op = "reload" /\ c.file.kind # "file")
         => /\ c.ret = "None"
            /\ c.post = c.pre
            /\ dirs'[c.dir]._contents = c.pre
            /\ Wrote(c.id) = <<>>]_vars

C10_Witness ==
    \E c \in Range(calls) :
        c.op = "reload" /\ c.file.kind = "absent" /\ c.pre = List(<<A, B>>) /\ c.ret = "None"

\* the same with the accepted lines unset: the initial load of an unreadable file
C10_WitnessUnset ==
    \E c \in Range(calls) :
        c.op = "reload" /\ c.file.kind = "unreadable" /\ c.pre.is_none /\ c.ret = "None"

\* the event at the head of the queue is taken by the step
Handled == pc = "run" /\ queue # <<>> /\ queue' = Tail(queue)

\* C11: an event for a file named announce in a directory that is not in dirs
\* changes neither dirs nor the stream, and the program keeps running.
C11_UnmonitoredIgnored ==
    [][(/\ Handled
        /\ Head(queue).path # Root
        /\ Head(queue).filename = "announce"
        /\ Head(queue).path \notin tracked(dirs))
       => (dirs' = dirs /\ out' = out /\ pc' = "run")]_vars

\* C12: a withdraw of an instance whose accepted lines are unset (a directory
\* removed, or an announce event with the file missing) completes, writes
\* nothing, and the program keeps running.
C12_WithdrawUnsetCompletes ==
    \A c \in Range(calls) :
        (c.op = "withdraw" /\ c.pre.is_none)
        => (c.ret = "ok" /\ c.wrote = <<>> /\ pc = "run")

\* C13: a reload that reads a file without any accepted line, the accepted
\* lines not being empty, writes nothing, leaves the empty sequence as the
\* accepted lines and returns True; a withdraw that follows writes nothing.
C13_EmptiedFile ==
    [][/\ \A c \in Range(calls') :
            (/\ ProgramStep
             /\ c.op = "reload" /\ c.file.kind = "file"
             /\ Filtered(c.file.lines) = <<>>
             /\ ~c.pre.is_none /\ c.pre.lines # <<>>)
            => /\ Wrote(c.id) = <<>>
               /\ c.post = List(<<>>)
               /\ dirs'[c.dir]._contents = List(<<>>)
               /\ c.ret = "True"
       /\ \A c1 \in Range(calls), c2 \in Range(calls') :
            (/\ ProgramStep
             /\ c1.op = "reload" /\ c1.file.kind = "file"
             /\ Filtered(c1.file.lines) = <<>>
             /\ c2.op = "withdraw" /\ c2.id = c1.id)
            => (Wrote(c2.id) = <<>> /\ c2.ret = "ok")]_vars

\* a withdraw of an instance that wrote lines and whose accepted lines a reload
\* has emptied
C13_Witness ==
    \E c \in Range(calls) :
        /\ c.op = "withdraw" /\ c.ret = "ok"
        /\ c.pre = List(<<>>) /\ c.wrote = <<>>
        /\ Lines(out, c.id) # <<>>

\* the entries of the stream written by the instance id
Entries(id) == SelectSeq(out, LAMBDA e : e.id = id)

\* the most recent batch among the entries es: the lines after the last but one
\* end of a batch
LastBatch(es) ==
    LET ends  == {i \in 1..(Len(es) - 1) : es[i].last}
        start == IF ends = {} THEN 1 ELSE (CHOOSE i \in ends : \A j \in ends : j <= i) + 1
    IN  [i \in 1..(Len(es) - start + 1) |-> es[start + i - 1].line]

\* C14: between two events, for every instance in dirs, either nothing was
\* written for it or the most recent batch written for it is its accepted lines.
C14_ReplacementLog ==
    pc = "run" =>
        \A d \in tracked(dirs) :
            LET es == Entries(dirs[d].id)
            IN  \/ es = <<>>
                \/ /\ ~dirs[d]._contents.is_none
                   /\ LastBatch(es) = dirs[d]._contents.lines

\* C15: an event of the top level directory for a directory that is in dirs
\* constructs no instance: dirs is kept and nothing is written.
C15_NoDoubleRegistration ==
    [][(/\ Handled
        /\ Head(queue).path = Root
        /\ isdir(Head(queue).filename)
        /\ Head(queue).filename \in tracked(dirs))
       => (dirs' = dirs /\ out' = out /\ nextId' = nextId)]_vars

\* C16: an event of the top level directory for a name that is in dirs and is
\* no directory any more: withdraw is called and returns, having written the
\* withdrawals of the accepted announce lines of the instance; the name leaves
\* dirs and its watch is released (line 261); the accepted lines of the other
\* instances are kept. On the accepted lines A, WB the only line written is the
\* withdrawal of A.
C16_DirectoryRemoved ==
    [][(/\ Handled
        /\ Head(queue).path = Root
        /\ ~isdir(Head(queue).filename)
        /\ Head(queue).filename \in tracked(dirs))
       => LET d   == Head(queue).filename
              ann == SelectSeq(dirs[d]._contents.lines, IsAnnounce)
          IN  /\ Wrote(dirs[d].id) = [i \in 1..Len(ann) |-> "withdraw " \o slice9(ann[i])]
              /\ out' = out \o emit(dirs[d], Wrote(dirs[d].id))
              /\ \E c \in Range(calls') : c.op = "withdraw" /\ c.id = dirs[d].id /\ c.ret = "ok"
              /\ d \notin tracked(dirs')
              /\ d \notin watches'
              /\ \A e \in Names \ {d} : dirs'[e] = dirs[e]
              /\ withdraw(Holding(List(<<A, WB>>))).wrote = <<"withdraw A\n">>]_vars

\* C17: an event inside an instance directory. For the file named announce in
\* a directory that is in dirs, the one call made is reload on the instance of
\* that directory if the file exists, withdraw if it does not; for another file
\* name no call is made, dirs is kept and nothing is written.
C17_FileEventDispatch ==
    [][(Handled /\ Head(queue).path # Root)
       => LET d      == Head(queue).path
              exists == fs[d].kind = "dir" /\ fs[d].announce.kind # "absent"
          IN  IF Head(queue).filename = "announce"
              THEN d \in tracked(dirs)
                   => /\ Len(calls') = 1
                      /\ calls'[1].dir = d
                      /\ calls'[1].id = dirs[d].id
                      /\ calls'[1].op = IF exists THEN "reload" ELSE "withdraw"
                      /\ calls'[1].file = announce_file(d)
              ELSE calls' = <<>> /\ dirs' = dirs /\ out' = out]_vars

\* the announce file of a directory in dirs was found missing and the lines of
\* its instance were withdrawn
C17_Witness ==
    \E c \in Range(calls) :
        /\ c.op = "withdraw" /\ c.ret = "ok" /\ c.wrote # <<>>
        /\ c.file.kind = "absent"
        /\ dirs[c.dir].id = c.id

\* the startup scan is the step taken
Bootstrap == pc = "scan" /\ pc' = "run"

\* after the scan: dirs holds one instance for each directory of the root, each
\* its own, and none for the other names
OnePerDirectory ==
    /\ \A d \in Names : d \in tracked(dirs') <=> isdir(d)
    /\ \A d, e \in tracked(dirs') : dirs'[d].id = dirs'[e].id => d = e

\* C18, as claimed: after the scan dirs holds one instance per directory of the
\* root and none for the other names; an instance whose announce file exists has
\* the filtered lines of the file as accepted lines and has written them, an
\* instance without announce file has its accepted lines unset and has written
\* nothing.
C18_Bootstrap_Claimed ==
    [][Bootstrap
       => /\ OnePerDirectory
          /\ \A d \in tracked(dirs') :
               LET f == announce_file(d)
               IN  IF f.kind # "absent"
                   THEN /\ dirs'[d]._contents = List(Filtered(f.lines))
                        /\ Lines(out', dirs'[d].id) = Filtered(f.lines)
                   ELSE /\ dirs'[d]._contents = None
                        /\ Lines(out', dirs'[d].id) = <<>>]_vars

\* C18, amended: the same, an announce file that exists but cannot be read
\* counting as no file: the accepted lines are unset and nothing is written.
C18_Bootstrap ==
    [][Bootstrap
       => /\ OnePerDirectory
          /\ \A d \in tracked(dirs') :
               LET f == announce_file(d)
               IN  IF f.kind = "file"
                   THEN /\ dirs'[d]._contents = List(Filtered(f.lines))
                        /\ Lines(out', dirs'[d].id) = Filtered(f.lines)
                   ELSE /\ dirs'[d]._contents = None
                        /\ Lines(out', dirs'[d].id) = <<>>]_vars

\* no event has been handled since the scan, which found a directory with a
\* readable file, one with an unreadable file and no other
C18_Witness ==
    /\ pc = "run" /\ nextId = 2 /\ out # <<>>
    /\ \A d \in Names : d \in tracked(dirs)
    /\ \E d \in Names : announce_file(d).kind = "unreadable" /\ dirs[d]._contents = None
    /\ \E c \in Range(calls) : c.op = "reload" /\ c.pre.is_none /\ c.ret = "True"

\* C19: a poll that finds the deadline passed leaves a deadline later than its
\* now, whatever --timeout and the random draws are.
C19_DeadlineAhead ==
    \A c \in Range(calls) : (c.op = "poll" /\ c.late) => c.ahead

\* C20: an instance with an announce line among its accepted lines is withdrawn
\* and its file is then found again with the lines it was loaded from: the
\* reload returns True and writes every accepted line of the file again. The
\* reload is the call that follows the withdraw, or a later one that finds the
\* accepted lines as the withdraw left them.
C20_ReannounceAfterRemoval ==
    [][/\ \A c1 \in Range(calls), c2 \in Range(calls') :
            (/\ ProgramStep
             /\ c1.op = "withdraw" /\ c1.ret = "ok"
             /\ \E l \in Range(c1.pre.lines) : IsAnnounce(l)
             /\ c2.op = "reload" /\ c2.id = c1.id
             /\ c2.file.kind = "file"
             /\ Filtered(c2.file.lines) = c1.pre.lines)
            => /\ c2.ret = "True"
               /\ Wrote(c2.id) = Filtered(c2.file.lines)
               /\ dirs'[c2.dir]._contents = List(Filtered(c2.file.lines))
       /\ \A c \in Range(calls') :
            (/\ ProgramStep
             /\ c.op = "reload" /\ c.file.kind = "file"
             /\ \E l \in Range(Filtered(c.file.lines)) : IsAnnounce(l)
             /\ LET ann == SelectSeq(Filtered(c.file.lines), IsAnnounce)
                IN  c.pre = List([i \in 1..Len(ann) |-> "withdraw " \o slice9(ann[i])]))
            => /\ c.ret = "True"
               /\ Wrote(c.id) = Filtered(c.file.lines)]_vars

\* the lines A, B were withdrawn, and the file that holds them again is reloaded
C20_Witness ==
    \E c \in Range(calls) :
        /\ c.op = "reload" /\ c.ret = "True"
        /\ c.pre = List(<<"withdraw A\n", "withdraw B\n">>)
        /\ c.file = File(<<A, G, B>>)
        /\ c.wrote = <<A, B>>
        /\ Lines(out, c.id) = <<A, B, "withdraw A\n", "withdraw B\n", A, B>>

====
